---- MODULE Spec2Model ----
(***************************************************************************)
(* A model of the instrument workers of naqslab_devices:                   *)
(*   KeysightXSeries/blacs_worker.py  (KeysightXScopeWorker)               *)
(*   KeysightXSeries/labscript_device.py (KeysightXScope.generate_code)    *)
(*   SignalGenerator/BLACS/SRS_SG380.py (SRS_SG380Worker)                  *)
(* Every worker method is one action.  The variable `call` records the     *)
(* last method call: its arguments, the worker state it started from, the  *)
(* bus operations it attempted (in order) and how it ended.                *)
(***************************************************************************)
EXTENDS Integers, Sequences, FiniteSets, TLC

VARIABLES
    started,        \* KeysightXScopeWorker.init has completed
    dig_command,    \* self.dig_command
    smart_cache,    \* self.smart_cache['COUNTERS'] : None or a counter table
    chunk_size,     \* self.connection.chunk_size
    h5_file,        \* device group of the shot file stored by transition_to_buffered
    mode,           \* host state: "manual" or "buffered"
    holdoff,        \* trigger holdoff last accepted by the scope
    last_buffered,  \* counter table and outcome of the latest transition_to_buffered
    srs_started,    \* SRS_SG380Worker.init has completed
    mode_list,      \* KeysightXScopeTab.mode_list : the mode widgets, in order
    call            \* record of the last method call

vars == <<started, dig_command, smart_cache, chunk_size, h5_file, mode,
          holdoff, last_buffered, srs_started, mode_list, call>>

-----------------------------------------------------------------------------
(* Bounds of the model *)

\* longest COUNTERS table
MaxCounters == 2
\* most entries waiting in a device error queue
MaxErrors == 2

-----------------------------------------------------------------------------
(* Optional values: None is the empty sequence, Some(x) a one-element one *)

None == <<>>
Some(x) == <<x>>
Get(o) == o[1]

-----------------------------------------------------------------------------
(* The instrument bus.  A bus operation is a write or a query with the     *)
(* command template it was formatted from, the string and integer values   *)
(* formatted into it, and whether the bus accepted it (a refused operation *)
(* raises VisaIOError in the caller).                                      *)

BusOp(kind, cmd, sargs, nargs, ok) ==
    [kind |-> kind, cmd |-> cmd, sargs |-> sargs, nargs |-> nargs, ok |-> ok]

Write(cmd, sargs, nargs, ok) == BusOp("write", cmd, sargs, nargs, ok)
Query(cmd, sargs, nargs, ok) == BusOp("query", cmd, sargs, nargs, ok)

\* the operations of a bus log formatted from one command template
OfCmd(bus, cmd) == SelectSeq(bus, LAMBDA o : o.cmd = cmd)

AllOk(bus) == \A i \in 1..Len(bus) : bus[i].ok

\* how a method call ended
\* (`errors` are the device error entries the caller gets to see)
Returned(value) ==
    [status |-> "returned", exc |-> "none", value |-> value, errors |-> <<>>]
Raised(exc, errors) ==
    [status |-> "raised", exc |-> exc, value |-> <<>>, errors |-> errors]

-----------------------------------------------------------------------------
(* Class attributes of KeysightXScopeWorker *)

esr_mask == 61
setup_string == "*ESE 61;*SRE 32;*CLS;:ACQuire:TYPE NORMal;..."
read_analog_parameters_string == ":WAV:SOUR CHAN{0:d}; ...:WAV:FORM WORD; PRE?"
read_dig_parameters_string == ":WAV:FORM BYTE;SOUR POD{0:d};PRE?"
read_waveform_string == ":WAV:DATA?"
read_counter_string == ":MEAS:{0:s}{1:s}? CHAN{2:d}"
meas_config_string == ":MEAS:{0:s}{1:s} CHAN{2:d}"

\* pyvisa's chunk size of a freshly opened resource (20 KiB)
DefaultChunk == 20 * 1024

-----------------------------------------------------------------------------
(* Identity strings, as sequences of characters so that `sub in ident`     *)
(* is a substring test.                                                    *)

IsSubstring(sub, s) ==
    \E i \in 0..(Len(s) - Len(sub)) :
        \A j \in 1..Len(sub) : s[i + j] = sub[j]

model_ident == { <<"S","O","-","X">>, <<"S","O","X">> }

IdentStrings ==
    { <<"D","S","O","-","X","2">>,       \* DSO-X 2000/3000 series
      <<"M","S","O","X","3">>,           \* MSOX 3000 series
      <<"D","S","O","-","X","Y">>,       \* triggers the ':SING' alternative
      <<"S","G","3","8","2">>,           \* an SRS signal generator
      <<"E","4","4","0">> }              \* some other instrument

-----------------------------------------------------------------------------
(* The shot file: KeysightXScope.generate_code writes the device group.    *)
(* A connection 'Channel 2' is the pair <<"Channel", 2>>; the worker's     *)
(* int(connection.split(' ')[-1]) is its second component.                 *)

Conn(kind, n) == <<kind, n>>
chan_num(connection) == connection[2]

trans == [pulse |-> "PUL", edge |-> "EDG", pos |-> "P", neg |-> "N"]

\* one row of the COUNTERS table: (connection, type, polarity)
counts_row(counter) ==
    <<counter.connection, trans[counter.type], trans[counter.polarity]>>

\* the device group written for one compiled shot: a dataset is created
\* only for a non-empty table, MEAS_SETTINGS always
generate_code(analog, pod1, pod2, counts, measure_settings) ==
    LET counts_table == [i \in 1..Len(counts) |-> counts_row(counts[i])]
        names == { n \in {"ANALOG_ACQUISITIONS", "POD1_ACQUISITIONS",
                          "POD2_ACQUISITIONS", "COUNTERS"} :
                     \/ n = "ANALOG_ACQUISITIONS" /\ Len(analog) > 0
                     \/ n = "POD1_ACQUISITIONS" /\ Len(pod1) > 0
                     \/ n = "POD2_ACQUISITIONS" /\ Len(pod2) > 0
                     \/ n = "COUNTERS" /\ Len(counts_table) > 0 }
                 \cup {"MEAS_SETTINGS"}
    IN  [n \in names |->
            CASE n = "ANALOG_ACQUISITIONS" -> analog
              [] n = "POD1_ACQUISITIONS" -> pod1
              [] n = "POD2_ACQUISITIONS" -> pod2
              [] n = "COUNTERS" -> counts_table
              [] OTHER -> measure_settings]

(* What an experiment script can ask for *)

Acq(kind, n, label) == <<Conn(kind, n), label>>

AcquisitionChoices ==
    { [analog |-> <<>>, pod1 |-> <<>>, pod2 |-> <<>>],
      [analog |-> <<Acq("Channel", 1, "ch1")>>, pod1 |-> <<>>, pod2 |-> <<>>],
      [analog |-> <<>>, pod1 |-> <<Acq("Digital", 3, "d3")>>, pod2 |-> <<>>],
      [analog |-> <<>>, pod1 |-> <<>>, pod2 |-> <<Acq("Digital", 12, "d12")>>],
      [analog |-> <<Acq("Channel", 1, "ch1"), Acq("Channel", 2, "ch2")>>,
       pod1 |-> <<Acq("Digital", 3, "d3")>>,
       pod2 |-> <<Acq("Digital", 12, "d12")>>] }

CounterRequests ==
    { [connection |-> Conn("Channel", 1), type |-> "pulse", polarity |-> "pos"],
      [connection |-> Conn("Channel", 2), type |-> "edge", polarity |-> "neg"] }

SeqsUpTo(S, n) == UNION { [1..k -> S] : k \in 0..n }

CountsChoices == SeqsUpTo(CounterRequests, MaxCounters)

MeasureSettingsChoices ==
    { [time_scale |-> 20, trigger_source |-> "CHAN1", x0_position |-> 3] }

\* shots for the study of transition_to_buffered: every counter table, with
\* and without another acquisition
ShotFiles ==
    { generate_code(a.analog, a.pod1, a.pod2, c, m) :
        a \in { x \in AcquisitionChoices : Len(x.pod1) = 0 /\ Len(x.pod2) = 0 },
        c \in CountsChoices, m \in MeasureSettingsChoices }

\* shots for the study of transition_to_manual: every acquisition choice,
\* with no counter and with the longest table of distinct counters
DistinctCounts ==
    { c \in CountsChoices :
        /\ Len(c) \in {0, Cardinality(CounterRequests)}
        /\ \A i, j \in 1..Len(c) : i # j => c[i] # c[j] }

\* two counters of one channel (ScopeChannel.counts is a list)
SharedChannelCounts ==
    { << [connection |-> Conn("Channel", 1), type |-> "pulse", polarity |-> "pos"],
         [connection |-> Conn("Channel", 1), type |-> "edge", polarity |-> "neg"] >> }

ManualShotFiles ==
    { generate_code(a.analog, a.pod1, a.pod2, c, m) :
        a \in AcquisitionChoices, c \in DistinctCounts \cup SharedChannelCounts,
        m \in MeasureSettingsChoices }

-----------------------------------------------------------------------------
(* Straight-line code: the operations attempted are those planned up to    *)
(* and including the first one the bus refuses; that one raises.           *)

FirstFailure(ops) ==
    IF AllOk(ops) THEN 0
    ELSE CHOOSE i \in 1..Len(ops) : ~ops[i].ok /\ \A j \in 1..(i - 1) : ops[j].ok

Attempted(ops) ==
    IF AllOk(ops) THEN ops ELSE SubSeq(ops, 1, FirstFailure(ops))

Section(ops) ==
    [bus |-> Attempted(ops),
     exc |-> IF AllOk(ops) THEN None ELSE Some("VisaIOError")]

-----------------------------------------------------------------------------
(* KeysightXScopeWorker.transition_to_buffered *)

\* which writes the bus refuses during one transition_to_buffered: any of
\* the optional settings, or one of the other writes (the first such
\* failure ends the call)
OptionalWrites == {"trigger_source", "range", "position"}

NoFailure == [opt |-> {}, hard |-> "none", at |-> 0]

BufferedFailures ==
    { [opt |-> o, hard |-> "none", at |-> 0] : o \in SUBSET OptionalWrites }
    \cup { [opt |-> {}, hard |-> h, at |-> 0] : h \in {"holdoff", "dig"} }
    \cup { [opt |-> {}, hard |-> "meas", at |-> i] : i \in 1..MaxCounters }

\* faulty variant: the settings written with no try around them
apply_meas_settings_unguarded(settings, fail) ==
    Section(<<Write(":trigger:source {}", <<settings.trigger_source>>, <<>>,
                    "trigger_source" \notin fail.opt),
              Write(":timebase:range {}", <<>>, <<settings.time_scale>>,
                    "range" \notin fail.opt),
              Write(":timebase:position {}", <<>>,
                    <<(settings.time_scale \div 10) * settings.x0_position>>,
                    "position" \notin fail.opt)>>)

\* lines 148-159: each setting in its own try, the position write nested
\* inside the try of the range write
apply_meas_settings(settings, fail) ==
    LET source == Write(":trigger:source {}", <<settings.trigger_source>>, <<>>,
                        "trigger_source" \notin fail.opt)
        range == Write(":timebase:range {}", <<>>, <<settings.time_scale>>,
                       "range" \notin fail.opt)
        position == Write(":timebase:position {}", <<>>,
                          <<(settings.time_scale \div 10) * settings.x0_position>>,
                          "position" \notin fail.opt)
    IN  [bus |-> <<source, range>> \o (IF range.ok THEN <<position>> ELSE <<>>),
         exc |-> None]

\* lines 164-170: refresh = not np.all(np.equal(data, cache)); np.equal
\* compares element by element, stretching a one-row table over the other
\* one, and raises ValueError (refresh = True) when the lengths differ
\* otherwise.  None equals no row.
np_broadcastable(a, b) == Len(a) = Len(b) \/ Len(a) = 1 \/ Len(b) = 1

np_all_equal(a, b) ==
    LET n == IF Len(a) = 1 THEN Len(b) ELSE Len(a)
        at(x, i) == IF Len(x) = 1 THEN x[1] ELSE x[i]
    IN  \A i \in 1..n : at(a, i) = at(b, i)

\* faulty variant: the comparison with the cache lost: always refresh
refresh_always(data, cache) == TRUE

refresh_needed(data, cache) ==
    IF cache = None THEN TRUE
    ELSE IF ~np_broadcastable(data, Get(cache)) THEN TRUE
    ELSE ~np_all_equal(data, Get(cache))

\* lines 173-176: one ':MEAS:' write per row, in table order
configure_counters(data, fail) ==
    [i \in 1..Len(data) |->
        Write(meas_config_string, <<data[i][3], data[i][2]>>,
              <<chan_num(data[i][1])>>,
              ~(fail.hard = "meas" /\ fail.at = i))]

\* lines 161-178: the cache is assigned after each accepted write
section_counters(data, fresh, cache, fail) ==
    IF data = None THEN [bus |-> <<>>, exc |-> None, cache |-> cache]
    ELSE LET refresh == IF fresh THEN FALSE ELSE refresh_needed(Get(data), cache)
         IN  IF fresh \/ refresh
             THEN LET s == Section(configure_counters(Get(data), fail))
                  IN  [bus |-> s.bus, exc |-> s.exc,
                       cache |-> IF \E i \in 1..Len(s.bus) : s.bus[i].ok
                                 THEN data ELSE cache]
             ELSE [bus |-> <<>>, exc |-> None, cache |-> cache]

\* faulty variant: the trigger never marked as expected
send_trigger_never(group) == FALSE

\* lines 139-140
send_trigger(group) == Cardinality(DOMAIN group) # 0

\* lines 180-185
section_dig(group, command, fail) ==
    IF send_trigger(group)
    THEN Section(<<Write(command, <<>>, <<>>, fail.hard # "dig")>>)
    ELSE Section(<<>>)

\* the whole method: what it attempts on the bus, the cache it leaves and
\* how it ends
run_transition_to_buffered(group, fresh, cache, command, fail) ==
    LET data == IF "COUNTERS" \in DOMAIN group THEN Some(group["COUNTERS"]) ELSE None
        s1 == Section(<<Write("trigger:holdoff {}", <<"10E0">>, <<>>,
                              fail.hard # "holdoff")>>)
        s2 == IF "MEAS_SETTINGS" \in DOMAIN group
              THEN apply_meas_settings(group["MEAS_SETTINGS"], fail)
              ELSE [bus |-> <<>>, exc |-> None]
        s3 == section_counters(data, fresh, cache, fail)
        s4 == section_dig(group, command, fail)
    IN  IF s1.exc # None
        THEN [bus |-> s1.bus, cache |-> cache, result |-> Raised(Get(s1.exc), <<>>)]
        ELSE IF s2.exc # None
        THEN [bus |-> s1.bus \o s2.bus, cache |-> cache,
              result |-> Raised(Get(s2.exc), <<>>)]
        ELSE IF s3.exc # None
        THEN [bus |-> s1.bus \o s2.bus \o s3.bus, cache |-> s3.cache,
              result |-> Raised(Get(s3.exc), <<>>)]
        ELSE IF s4.exc # None
        THEN [bus |-> s1.bus \o s2.bus \o s3.bus \o s4.bus, cache |-> s3.cache,
              result |-> Raised(Get(s4.exc), <<>>)]
        ELSE [bus |-> s1.bus \o s2.bus \o s3.bus \o s4.bus, cache |-> s3.cache,
              result |-> Returned(<<>>)]

\* the holdoff the scope is left with: the argument of the last accepted
\* 'trigger:holdoff' write, if any
holdoff_after(bus, before) ==
    LET w == SelectSeq(bus, LAMBDA o : o.cmd = "trigger:holdoff {}" /\ o.ok)
    IN  IF Len(w) = 0 THEN before ELSE w[Len(w)].sargs[1]

\* the worker state a method call starts from
Snapshot ==
    [smart_cache |-> smart_cache, chunk_size |-> chunk_size,
     last_buffered |-> last_buffered]

transition_to_buffered(h5file, fresh, fail) ==
    /\ started
    /\ mode = "manual"
    /\ fail.hard = "meas" => /\ "COUNTERS" \in DOMAIN h5file
                             /\ fail.at <= Len(h5file["COUNTERS"])
    /\ LET r == run_transition_to_buffered(h5file, fresh, smart_cache, dig_command, fail)
           data == IF "COUNTERS" \in DOMAIN h5file
                   THEN Some(h5file["COUNTERS"]) ELSE None
       IN  /\ smart_cache' = r.cache
           /\ h5_file' = Some(h5file)
           /\ holdoff' = holdoff_after(r.bus, holdoff)
           /\ last_buffered' = Some([counters |-> data, status |-> r.result.status])
           /\ call' = [op |-> "transition_to_buffered",
                       args |-> [h5file |-> h5file, fresh |-> fresh, fail |-> fail],
                       pre |-> Snapshot,
                       bus |-> r.bus,
                       locals |-> [data |-> data,
                                   send_trigger |-> send_trigger(h5file)],
                       result |-> r.result]
    /\ mode' = "buffered"
    /\ UNCHANGED <<started, dig_command, chunk_size, srs_started, mode_list>>

-----------------------------------------------------------------------------
(* KeysightXScopeWorker.transition_to_manual *)

ChunkThreshold == 400000
HeaderBytes == 11
AnalogWidth == 2
PodWidth == 1

\* faulty variant: the threshold compared with > instead of >=
needs_large_chunk_strict(points, width) ==
    points * width + HeaderBytes > ChunkThreshold

\* lines 237, 251, 267: Apts*2+11 >= 400000, Dpts+11 >= 400000
needs_large_chunk(points, width) ==
    points * width + HeaderBytes >= ChunkThreshold

\* lines 237-242 (and 251-256, 267-272): the chunk size before the binary
\* read, during it, and when control leaves the transfer; a refused read
\* raises out of the method before the restoring assignment
read_waveform(points, width, chunk, ok) ==
    LET default_chunk == chunk
        during == IF needs_large_chunk(points, width)
                  THEN points * width + HeaderBytes ELSE chunk
    IN  [before |-> chunk,
         during |-> during,
         after |-> IF ok
                   THEN (IF needs_large_chunk(points, width)
                         THEN default_chunk ELSE during)
                   ELSE during,
         ok |-> ok]

\* line 194-223: a table that is not in the file reads as empty
table_of(group, name) == IF name \in DOMAIN group THEN group[name] ELSE <<>>

\* the bus operations of a complete run, in program order
Step(what, kind, source, points, width, row) ==
    [what |-> what, kind |-> kind, source |-> source, points |-> points,
     width |-> width, row |-> row]

NoRow == <<>>

manual_plan(group, points) ==
    LET analog == table_of(group, "ANALOG_ACQUISITIONS")
        pod1 == table_of(group, "POD1_ACQUISITIONS")
        pod2 == table_of(group, "POD2_ACQUISITIONS")
        counters == table_of(group, "COUNTERS")
        analog_steps(i) ==
            << Step("preamble", "analog", chan_num(analog[i][1]),
                    points.analog, AnalogWidth, NoRow),
               Step("read", "analog", chan_num(analog[i][1]),
                    points.analog, AnalogWidth, NoRow) >>
        RECURSIVE all_analog(_)
        all_analog(i) ==
            IF i > Len(analog) THEN <<>> ELSE analog_steps(i) \o all_analog(i + 1)
        pod_steps(n, p) ==
            << Step("preamble", "pod", n, p, PodWidth, NoRow),
               Step("read", "pod", n, p, PodWidth, NoRow) >>
    IN  all_analog(1)
        \o (IF Len(pod1) > 0 THEN pod_steps(1, points.pod1) ELSE <<>>)
        \o (IF Len(pod2) > 0 THEN pod_steps(2, points.pod2) ELSE <<>>)
        \o [i \in 1..Len(counters) |->
              Step("counter", "counter", chan_num(counters[i][1]), 0, 0, counters[i])]
        \o << Step("holdoff", "holdoff", 0, 0, 0, NoRow) >>

\* the bus operation of one step
step_op(s, ok) ==
    CASE s.what = "preamble" /\ s.kind = "analog" ->
            Query(read_analog_parameters_string, <<>>, <<s.source>>, ok)
      [] s.what = "preamble" /\ s.kind = "pod" ->
            Query(read_dig_parameters_string, <<>>, <<s.source>>, ok)
      [] s.what = "read" ->
            Query(read_waveform_string, <<>>, <<>>, ok)
      [] s.what = "counter" ->
            Query(read_counter_string, <<s.row[3], s.row[2]>>, <<s.source>>, ok)
      [] OTHER ->
            Write("trigger:holdoff {}", <<"40E-9">>, <<>>, ok)

\* runs the plan from step i with the given chunk size; the step numbered
\* fail_at is refused by the bus and raises
RECURSIVE run_plan(_, _, _, _)
run_plan(plan, i, chunk, fail_at) ==
    IF i > Len(plan)
    THEN [bus |-> <<>>, transfers |-> <<>>, chunk |-> chunk, exc |-> None]
    ELSE LET s == plan[i]
             ok == i # fail_at
             t == read_waveform(s.points, s.width, chunk, ok)
             here == [bus |-> <<step_op(s, ok)>>,
                      transfers |-> IF s.what = "read"
                                    THEN << [kind |-> s.kind, source |-> s.source,
                                             points |-> s.points, width |-> s.width,
                                             before |-> t.before, during |-> t.during,
                                             after |-> t.after, ok |-> ok] >>
                                    ELSE <<>>,
                      chunk |-> IF s.what = "read" THEN t.after ELSE chunk]
         IN  IF ~ok
             THEN [bus |-> here.bus, transfers |-> here.transfers,
                   chunk |-> here.chunk, exc |-> Some("VisaIOError")]
             ELSE LET rest == run_plan(plan, i + 1, here.chunk, fail_at)
                  IN  [bus |-> here.bus \o rest.bus,
                       transfers |-> here.transfers \o rest.transfers,
                       chunk |-> rest.chunk, exc |-> rest.exc]

\* lines 303-337: the datasets and attributes written to the result store
NothingStored == [datasets |-> <<>>, attrs |-> <<>>]

stored_keys(group) ==
    LET labels(t) == [i \in 1..Len(t) |-> t[i][2]]
        counters == table_of(group, "COUNTERS")
    IN  [datasets |-> labels(table_of(group, "ANALOG_ACQUISITIONS"))
                      \o labels(table_of(group, "POD1_ACQUISITIONS"))
                      \o labels(table_of(group, "POD2_ACQUISITIONS")),
         \* '{0:s}:{1:s}{2:s}'.format(connection, pol, typ)
         attrs |-> [i \in 1..Len(counters) |->
                      <<counters[i][1], counters[i][3], counters[i][2]>>]]

\* lines 285-289: count_data[connection] = float(query(...)) for each row in
\* turn; replies[i] is the reply to the query of row i
count_data(counters, replies) ==
    [c \in { counters[i][1] : i \in 1..Len(counters) } |->
        LET last == CHOOSE i \in 1..Len(counters) :
                       /\ counters[i][1] = c
                       /\ \A j \in (i + 1)..Len(counters) : counters[j][1] # c
        IN  replies[last]]

\* lines 335-336: the attribute written for each row, in turn
counts_attrs(counters, replies) ==
    [i \in 1..Len(counters) |->
        [key |-> <<counters[i][1], counters[i][3], counters[i][2]>>,
         value |-> count_data(counters, replies)[counters[i][1]]]]

\* faulty variant: the early return lost
no_acquisitions_never(group) == FALSE

\* lines 225-226
no_acquisitions(group) ==
    /\ Len(table_of(group, "ANALOG_ACQUISITIONS")) = 0
    /\ Len(table_of(group, "POD1_ACQUISITIONS")) = 0
    /\ Len(table_of(group, "POD2_ACQUISITIONS")) = 0
    /\ Len(table_of(group, "COUNTERS")) = 0

run_transition_to_manual(group, abort, chunk, points, replies, fail_at) ==
    IF abort
    THEN LET w == Write("trigger:holdoff {}", <<"40E-9">>, <<>>, fail_at # 1)
         IN  [bus |-> <<w>>, transfers |-> <<>>, chunk |-> chunk,
              stored |-> NothingStored, counts |-> <<>>,
              result |-> IF w.ok THEN Returned(TRUE) ELSE Raised("VisaIOError", <<>>)]
    ELSE IF no_acquisitions(group)
    THEN [bus |-> <<>>, transfers |-> <<>>, chunk |-> chunk,
          stored |-> NothingStored, counts |-> <<>>,
          result |-> Returned(TRUE)]
    ELSE LET plan == manual_plan(group, points)
             r == run_plan(plan, 1, chunk, fail_at)
             \* the store is written after the last query and before the
             \* final holdoff write
             reached_store == fail_at = 0 \/ fail_at = Len(plan)
         IN  [bus |-> r.bus, transfers |-> r.transfers, chunk |-> r.chunk,
              stored |-> IF reached_store THEN stored_keys(group) ELSE NothingStored,
              counts |-> IF reached_store
                         THEN counts_attrs(table_of(group, "COUNTERS"), replies)
                         ELSE <<>>,
              result |-> IF r.exc = None THEN Returned(TRUE)
                         ELSE Raised(Get(r.exc), <<>>)]

AnalogPoints == {199994, 199995}
PodPoints == {399988, 399989}

\* the preamble replies of one run; a group that is not read has no reply
PointsChoices(group) ==
    { [analog |-> a, pod1 |-> p1, pod2 |-> p2] :
        a \in IF "ANALOG_ACQUISITIONS" \in DOMAIN group THEN AnalogPoints ELSE {0},
        p1 \in IF "POD1_ACQUISITIONS" \in DOMAIN group THEN PodPoints ELSE {0},
        p2 \in IF "POD2_ACQUISITIONS" \in DOMAIN group THEN PodPoints ELSE {0} }

bus_length(group, abort) ==
    IF abort THEN 1
    ELSE IF no_acquisitions(group) THEN 0
    ELSE Len(manual_plan(group, [analog |-> 0, pod1 |-> 0, pod2 |-> 0]))

\* the replies to the counter queries of one run
CounterReplies == {3, 7}

RepliesChoices(group, abort) ==
    IF abort THEN {<<>>}
    ELSE [1..Len(table_of(group, "COUNTERS")) -> CounterReplies]

transition_to_manual(abort, points, replies, fail_at) ==
    /\ started
    /\ mode = "buffered"
    /\ h5_file # None
    \* the host aborts a run whose transition_to_buffered raised
    /\ last_buffered # None /\ Get(last_buffered).status = "raised" => abort
    /\ abort => points = [analog |-> 0, pod1 |-> 0, pod2 |-> 0]
    /\ ~abort => points \in PointsChoices(Get(h5_file))
    /\ replies \in RepliesChoices(Get(h5_file), abort)
    /\ fail_at \in 0..bus_length(Get(h5_file), abort)
    /\ LET r == run_transition_to_manual(Get(h5_file), abort, chunk_size, points,
                                         replies, fail_at)
       IN  /\ chunk_size' = r.chunk
           /\ holdoff' = holdoff_after(r.bus, holdoff)
           /\ call' = [op |-> "transition_to_manual",
                       args |-> [abort |-> abort, points |-> points,
                                 replies |-> replies, fail_at |-> fail_at],
                       pre |-> Snapshot,
                       bus |-> r.bus,
                       locals |-> [transfers |-> r.transfers, stored |-> r.stored,
                                   counts |-> r.counts],
                       result |-> r.result]
    /\ mode' = "manual"
    /\ UNCHANGED <<started, dig_command, smart_cache, h5_file, last_buffered,
                   srs_started, mode_list>>

-----------------------------------------------------------------------------
(* KeysightXScopeWorker.init *)

\* faulty variant: the identity never checked
supported_any(ident_string) == TRUE

\* line 78
supported(ident_string) == \E sub \in model_ident : IsSubstring(sub, ident_string)

\* lines 81-83
digitize_command(ident_string) ==
    IF IsSubstring(<<"D","S","O","-","X","Y">>, ident_string) THEN ":SING" ELSE ":DIG"

\* lines 76-95: the bus operations attempted and how the method ends; the
\* operation numbered fail_at is refused by the bus
run_init(ident_string, fail_at) ==
    LET idn == Query("*IDN?", <<>>, <<>>, fail_at # 1)
        setup == <<Write(setup_string, <<>>, <<>>, fail_at # 2),
                   Write("trigger:sweep auto", <<>>, <<>>, fail_at # 3),
                   Write("trigger:holdoff {}", <<"40E-9">>, <<>>, fail_at # 4)>>
    IN  IF ~idn.ok
        THEN [bus |-> <<idn>>, dig_command |-> ":DIG",
              result |-> Raised("VisaIOError", <<>>)]
        ELSE IF ~supported(ident_string)
        THEN [bus |-> <<idn>>, dig_command |-> ":DIG",
              result |-> Raised("LabscriptError", <<>>)]
        ELSE LET s == Section(setup)
             IN  [bus |-> <<idn>> \o s.bus,
                  dig_command |-> digitize_command(ident_string),
                  result |-> IF s.exc = None THEN Returned(<<>>)
                             ELSE Raised(Get(s.exc), <<>>)]

InitFailures == 0..4

\* a (re)start of the worker: a new instance on a new connection
init(ident_string, fail_at) ==
    LET r == run_init(ident_string, fail_at)
    IN  /\ started' = (r.result.status = "returned")
        /\ dig_command' = r.dig_command
        /\ smart_cache' = None
        /\ chunk_size' = DefaultChunk
        /\ h5_file' = None
        /\ mode' = "manual"
        /\ holdoff' = holdoff_after(r.bus, holdoff)
        /\ last_buffered' = None
        /\ call' = [op |-> "init",
                    args |-> [ident_string |-> ident_string, fail_at |-> fail_at],
                    pre |-> <<>>,
                    bus |-> r.bus,
                    locals |-> <<>>,
                    result |-> r.result]
        /\ UNCHANGED <<srs_started, mode_list>>

-----------------------------------------------------------------------------
(* KeysightXScopeWorker.set_aqcuisition_type, set_averaging_number *)

\* largest averaging number tried (and the smallest, negated)
MaxAveraging == 3

AcquisitionTypes == {"NORMal", "AVERage", "PEAK", "HRESolution"}
AveragingNumbers == (0 - MaxAveraging)..MaxAveraging

\* faulty variant: the type written without the check
run_set_aqcuisition_type_unchecked(aqtype, ok) ==
    [bus |-> <<Write(":ACQuire:TYPE {}", <<aqtype>>, <<>>, ok)>>,
     result |-> IF ok THEN Returned(<<>>) ELSE Raised("VisaIOError", <<>>)]

\* lines 98-101
run_set_aqcuisition_type(aqtype, ok) ==
    IF aqtype = "NORMal" \/ aqtype = "AVERage"
    THEN LET w == Write(":ACQuire:TYPE {}", <<aqtype>>, <<>>, ok)
         IN  [bus |-> <<w>>,
              result |-> IF ok THEN Returned(<<>>) ELSE Raised("VisaIOError", <<>>)]
    ELSE [bus |-> <<>>, result |-> Raised("LabscriptError", <<>>)]

\* faulty variant: zero accepted as an averaging number
run_set_averaging_number_nonneg(number, ok) ==
    IF number >= 0
    THEN [bus |-> <<Write(":ACQuire:COUNt {}", <<>>, <<number>>, ok)>>,
          result |-> IF ok THEN Returned(<<>>) ELSE Raised("VisaIOError", <<>>)]
    ELSE [bus |-> <<>>, result |-> Raised("LabscriptError", <<>>)]

\* lines 104-107
run_set_averaging_number(number, ok) ==
    IF number > 0
    THEN LET w == Write(":ACQuire:COUNt {}", <<>>, <<number>>, ok)
         IN  [bus |-> <<w>>,
              result |-> IF ok THEN Returned(<<>>) ELSE Raised("VisaIOError", <<>>)]
    ELSE [bus |-> <<>>, result |-> Raised("LabscriptError", <<>>)]

\* a method that touches nothing but the bus
BusOnlyCall(op, args, locals, r) ==
    /\ call' = [op |-> op, args |-> args, pre |-> Snapshot, bus |-> r.bus,
                locals |-> locals, result |-> r.result]
    /\ UNCHANGED <<started, dig_command, smart_cache, chunk_size, h5_file, mode,
                   holdoff, last_buffered, srs_started, mode_list>>

set_aqcuisition_type(aqtype, ok) ==
    /\ started
    /\ mode = "manual"
    /\ BusOnlyCall("set_aqcuisition_type", [aqtype |-> aqtype, ok |-> ok], <<>>,
                   run_set_aqcuisition_type(aqtype, ok))

set_averaging_number(number, ok) ==
    /\ started
    /\ mode = "manual"
    /\ BusOnlyCall("set_averaging_number", [number |-> number, ok |-> ok], <<>>,
                   run_set_averaging_number(number, ok))

\* lines 110-113
run_set_mode(source, timescale, yzero, fail_at) ==
    LET s == Section(<<Write(":trigger:source {}", <<source>>, <<>>, fail_at # 1),
                       Write(":timebase:range {}", <<timescale>>, <<>>, fail_at # 2),
                       Write(":timebase:position {}", <<yzero>>, <<>>, fail_at # 3),
                       Write(":run", <<>>, <<>>, fail_at # 4)>>)
    IN  [bus |-> s.bus,
         result |-> IF s.exc = None THEN Returned(<<>>) ELSE Raised(Get(s.exc), <<>>)]

set_mode(source, timescale, yzero, fail_at) ==
    /\ started
    /\ mode = "manual"
    /\ BusOnlyCall("set_mode",
                   [source |-> source, timescale |-> timescale, yzero |-> yzero,
                    fail_at |-> fail_at], <<>>,
                   run_set_mode(source, timescale, yzero, fail_at))

-----------------------------------------------------------------------------
(* check_status of both workers *)

RECURSIVE BitAnd(_, _)
BitAnd(a, b) ==
    IF a = 0 \/ b = 0 THEN 0
    ELSE (a % 2) * (b % 2) + 2 * BitAnd(a \div 2, b \div 2)

RECURSIVE Pow2(_)
Pow2(n) == IF n = 0 THEN 1 ELSE 2 * Pow2(n - 1)

\* VISAWorker.convert_register: 'bit i' -> whether bit i of the register is set
convert_register(register) ==
    [b \in 0..7 |-> (register \div Pow2(b)) % 2 = 1]

\* values of the event status register seen by a poll
EventRegisters == {0, 1, 4, 32, 36, 128, 129}

\* the '*ESE 61' of setup_string: what the scope answers to '*ESE?'
scope_event_enable == 61

\* replies of ':SYST:ERR?' are (code, text); error_parser takes the code
\* from the front of the reply and returns it with the whole reply
ScopeErrors == { <<-113, "Undefined header">>, <<-222, "Data out of range">> }
ScopeNoError == <<0, "No error">>
error_parser(error_return_string) == <<error_return_string[1], error_return_string>>

\* the device error queue: the entries waiting, then 'no error' for ever
ScopeQueues == SeqsUpTo(ScopeErrors, MaxErrors)

\* lines 355-360: query until the code is 0; replies are the queue and then
\* 'no error'.  Returns the queries and the accumulated err_string.
scope_drain(queue, fail_at, first) ==
    LET planned == [i \in 1..(Len(queue) + 1) |->
                       Query(":SYST:ERR?", <<>>, <<>>, first + i - 1 # fail_at)]
        s == Section(planned)
        \* the replies the loop got to parse
        got == Len(SelectSeq(s.bus, LAMBDA o : o.ok))
        codes == [i \in 1..got |->
                     error_parser(IF i <= Len(queue) THEN queue[i] ELSE ScopeNoError)]
    IN  [bus |-> s.bus, exc |-> s.exc,
         err_string |-> SelectSeq([i \in 1..got |-> codes[i][2]],
                                  LAMBDA e : e[1] # 0)]

\* lines 348-363
run_scope_check_status(queue, fail_at) ==
    LET q == Query("*ESE?", <<>>, <<>>, fail_at # 1)
        esr == scope_event_enable
    IN  IF ~q.ok
        THEN [bus |-> <<q>>, esr |-> 0, err_string |-> <<>>,
              result |-> Raised("VisaIOError", <<>>)]
        ELSE IF BitAnd(esr, esr_mask) # 0
        THEN LET d == scope_drain(queue, fail_at, 2)
             IN  [bus |-> <<q>> \o d.bus, esr |-> esr, err_string |-> d.err_string,
                  result |-> IF d.exc = None THEN Returned(convert_register(esr))
                             ELSE Raised(Get(d.exc), <<>>)]
        ELSE [bus |-> <<q>>, esr |-> esr, err_string |-> <<>>,
              result |-> Returned(convert_register(esr))]

scope_check_status(event_register, queue, fail_at) ==
    /\ started
    /\ LET r == run_scope_check_status(queue, fail_at)
       IN  BusOnlyCall("scope_check_status",
                       [event_register |-> event_register, queue |-> queue,
                        fail_at |-> fail_at],
                       [esr |-> r.esr, accumulated |-> r.err_string],
                       r)

(* SRS_SG380Worker *)

srs_esr_mask == 60

SrsErrors == {11, 31}
SrsQueues == SeqsUpTo(SrsErrors, MaxErrors)

\* SignalGeneratorWorker.init (line 62): the parent opens the session,
\* open(address) -> Session, and puts nothing on the bus
SignalGeneratorWorker_init == <<>>

\* lines 62-78
run_srs_init(ident_string, fail_at) ==
    LET opened == SignalGeneratorWorker_init
        idn == Query("*IDN?", <<>>, <<>>, fail_at # 1)
        ese == Write("*ESE 60;*SRE 32;*CLS", <<>>, <<>>, fail_at # 2)
    IN  IF ~idn.ok
        THEN [bus |-> opened \o <<idn>>, result |-> Raised("LabscriptError", <<>>)]
        ELSE IF ~IsSubstring(<<"S","G","3","8">>, ident_string)
        THEN [bus |-> opened \o <<idn>>, result |-> Raised("LabscriptError", <<>>)]
        ELSE [bus |-> opened \o <<idn, ese>>,
              result |-> IF ese.ok THEN Returned(<<>>)
                         ELSE Raised("VisaIOError", <<>>)]

srs_init(ident_string, fail_at) ==
    LET r == run_srs_init(ident_string, fail_at)
    IN  /\ srs_started' = (r.result.status = "returned")
        /\ call' = [op |-> "srs_init",
                    args |-> [ident_string |-> ident_string, fail_at |-> fail_at],
                    pre |-> Snapshot, bus |-> r.bus, locals |-> <<>>,
                    result |-> r.result]
        /\ UNCHANGED <<started, dig_command, smart_cache, chunk_size, h5_file,
                       mode, holdoff, last_buffered, mode_list>>

\* faulty variant: the queue asked once, not until it answers 0
srs_drain_once(queue, fail_at, first) ==
    LET s == Section(<<Query("LERR?", <<>>, <<>>, first # fail_at)>>)
        got == Len(SelectSeq(s.bus, LAMBDA o : o.ok))
        codes == [i \in 1..got |-> IF i <= Len(queue) THEN queue[i] ELSE 0]
    IN  [bus |-> s.bus, exc |-> s.exc,
         err_list |-> SelectSeq(codes, LAMBDA c : c # 0)]

\* lines 106-111
srs_drain(queue, fail_at, first) ==
    LET planned == [i \in 1..(Len(queue) + 1) |->
                       Query("LERR?", <<>>, <<>>, first + i - 1 # fail_at)]
        s == Section(planned)
        got == Len(SelectSeq(s.bus, LAMBDA o : o.ok))
        codes == [i \in 1..got |-> IF i <= Len(queue) THEN queue[i] ELSE 0]
    IN  [bus |-> s.bus, exc |-> s.exc,
         err_list |-> SelectSeq(codes, LAMBDA c : c # 0)]

\* faulty variant: the register tested without the mask
run_srs_check_status_unmasked(esr, queue, fail_at) ==
    LET q == Query("*ESR?", <<>>, <<>>, fail_at # 1)
    IN  IF ~q.ok
        THEN [bus |-> <<q>>, err_list |-> <<>>, result |-> Raised("VisaIOError", <<>>)]
        ELSE IF esr # 0
        THEN LET d == srs_drain(queue, fail_at, 2)
             IN  [bus |-> <<q>> \o d.bus, err_list |-> d.err_list,
                  result |-> IF d.exc = None
                             THEN Raised("LabscriptError", d.err_list)
                             ELSE Raised(Get(d.exc), <<>>)]
        ELSE [bus |-> <<q>>, err_list |-> <<>>,
              result |-> Returned(convert_register(esr))]

\* lines 100-115
run_srs_check_status(esr, queue, fail_at) ==
    LET q == Query("*ESR?", <<>>, <<>>, fail_at # 1)
    IN  IF ~q.ok
        THEN [bus |-> <<q>>, err_list |-> <<>>, result |-> Raised("VisaIOError", <<>>)]
        ELSE IF BitAnd(esr, srs_esr_mask) # 0
        THEN LET d == srs_drain(queue, fail_at, 2)
             IN  [bus |-> <<q>> \o d.bus, err_list |-> d.err_list,
                  result |-> IF d.exc = None
                             THEN Raised("LabscriptError", d.err_list)
                             ELSE Raised(Get(d.exc), <<>>)]
        ELSE [bus |-> <<q>>, err_list |-> <<>>,
              result |-> Returned(convert_register(esr))]

srs_check_status(esr, queue, fail_at) ==
    /\ srs_started
    /\ LET r == run_srs_check_status(esr, queue, fail_at)
       IN  BusOnlyCall("srs_check_status",
                       [event_register |-> esr, queue |-> queue, fail_at |-> fail_at],
                       [esr |-> esr, accumulated |-> r.err_list],
                       r)

-----------------------------------------------------------------------------
(* The data path of KeysightXScopeWorker.transition_to_manual: what lines  *)
(* 229-326 compute and store from the replies of the scope.  Samples and   *)
(* preamble values are integers (fixed point: one unit is the smallest     *)
(* step of the quantities involved); float64 arithmetic is exact on the    *)
(* values used here, the float32 of the stored analog values is not.       *)

\* faulty variant: origin and reference taken for one another
analog_waveform_parser_swapped(raw_waveform_array, y0, dy, yoffset) ==
    [i \in 1..Len(raw_waveform_array) |->
        (raw_waveform_array[i] - y0) * dy + yoffset]

\* lines 40-42, elementwise on the array
analog_waveform_parser(raw_waveform_array, y0, dy, yoffset) ==
    [i \in 1..Len(raw_waveform_array) |->
        (raw_waveform_array[i] - yoffset) * dy + y0]

\* faulty variant: the bits unpacked least significant first
digital_pod_parser_lsbf(raw_pod_array) ==
    [i \in 1..Len(raw_pod_array) |->
        [col \in 0..7 |-> ((raw_pod_array[i] % 256) \div Pow2(col)) % 2]]

\* lines 44-47: np.unpackbits of the uint8 array, one row of 8 columns per
\* byte, column 0 the most significant bit
digital_pod_parser(raw_pod_array) ==
    [i \in 1..Len(raw_pod_array) |->
        [col \in 0..7 |-> ((raw_pod_array[i] % 256) \div Pow2(7 - col)) % 2]]

\* the spacing of the float32 values around n >= 0 (24 bits of mantissa)
RECURSIVE float32_ulp(_)
float32_ulp(n) == IF n < Pow2(24) THEN 1 ELSE 2 * float32_ulp(n \div 2)

\* line 292 and 306: the value field is np.float32; assignment rounds to the
\* nearest float32, ties to even
float32(x) ==
    LET a == IF x < 0 THEN 0 - x ELSE x
        u == float32_ulp(a)
        q == a \div u
        r == a % u
        rounded == IF 2 * r < u THEN q * u
                   ELSE IF 2 * r > u THEN (q + 1) * u
                   ELSE IF q % 2 = 0 THEN q * u ELSE (q + 1) * u
    IN  IF x < 0 THEN 0 - rounded ELSE rounded

\* faulty variant: the axis counted from 0 instead of x_reference
time_axis_from_zero(xref, pts, xinc, xor) ==
    [i \in 1..pts |-> (i - 1) * xinc + xor]

\* lines 245, 282: np.arange(xref, xref+pts, 1)*xinc + xor
time_axis(xref, pts, xinc, xor) ==
    [i \in 1..pts |-> (xref + (i - 1)) * xinc + xor]

\* lines 305, 313, 321: values['t'] = time, numpy assignment into an array
\* of n records: same length, or a single entry broadcast, else ValueError
assign_column(n, column) ==
    IF Len(column) = n THEN Some(column)
    ELSE IF Len(column) = 1 THEN Some([i \in 1..n |-> column[1]])
    ELSE None

\* one preamble reply [form,typ,pts,cnt,xinc,xor,xref,yinc,yor,yref], less
\* the fields the worker does not use
Preamble(points, xinc, xor, xref, yinc, yor, yref) ==
    [points |-> points, xinc |-> xinc, xor |-> xor, xref |-> xref,
     yinc |-> yinc, yor |-> yor, yref |-> yref]

\* lines 229-282 and 303-326.  replies.analog[i] is the preamble and the
\* binary block read for row i of the analog table, replies.pod1 and
\* replies.pod2 those read for the pods.
run_read_traces(group, replies) ==
    LET analog == table_of(group, "ANALOG_ACQUISITIONS")
        pod1 == table_of(group, "POD1_ACQUISITIONS")
        pod2 == table_of(group, "POD2_ACQUISITIONS")
        \* line 243: parser(raw_data, yor, yinc, yref)
        analog_data(i) ==
            LET p == replies.analog[i].pre
            IN  analog_waveform_parser(replies.analog[i].raw, p.yor, p.yinc, p.yref)
        \* line 245: the variables left by the last turn of the loop
        A == replies.analog[Len(analog)].pre
        analog_time == time_axis(A.xref, A.points, A.xinc, A.xor)
        conv1 == digital_pod_parser(replies.pod1.raw)
        conv2 == digital_pod_parser(replies.pod2.raw)
        \* lines 261, 277
        pod1_data(i) ==
            [k \in 1..Len(conv1) |-> conv1[k][(7 - chan_num(pod1[i][1])) % 8]]
        pod2_data(i) ==
            [k \in 1..Len(conv2) |-> conv2[k][(15 - chan_num(pod2[i][1])) % 8]]
        \* line 282: the variables left by the last pod read
        D == IF Len(pod2) > 0 THEN replies.pod2.pre ELSE replies.pod1.pre
        digital_time == time_axis(D.xref, D.points, D.xinc, D.xor)
        dataset(k, i, name, time, column) ==
            [kind |-> k, row |-> i, label |-> name,
             t |-> assign_column(Len(column), time), values |-> column]
        planned ==
            [i \in 1..Len(analog) |->
                dataset("analog", i, analog[i][2], analog_time,
                        [k \in 1..Len(analog_data(i)) |-> float32(analog_data(i)[k])])]
            \o [i \in 1..Len(pod1) |->
                dataset("pod1", i, pod1[i][2], digital_time,
                        [k \in 1..Len(pod1_data(i)) |-> pod1_data(i)[k] % 256])]
            \o [i \in 1..Len(pod2) |->
                dataset("pod2", i, pod2[i][2], digital_time,
                        [k \in 1..Len(pod2_data(i)) |-> pod2_data(i)[k] % 256])]
        bad == { i \in 1..Len(planned) : planned[i].t = None }
        first_bad == CHOOSE i \in bad : \A j \in bad : i <= j
    IN  IF bad = {}
        THEN [datasets |-> planned, result |-> Returned(TRUE)]
        ELSE [datasets |-> SubSeq(planned, 1, first_bad - 1),
              result |-> Raised("ValueError", <<>>)]

read_traces(group, replies) ==
    BusOnlyCall("read_traces", [h5file |-> group, replies |-> replies],
                [datasets |-> run_read_traces(group, replies).datasets],
                [bus |-> <<>>, result |-> run_read_traces(group, replies).result])

-----------------------------------------------------------------------------
(* KeysightXScopeTab (blacs_tab.py): the list of mode widgets and the      *)
(* worker methods the tab queues.  A mode widget is its label and the      *)
(* value of its hidden index field.                                        *)

MaxModes == 3

ModeLabels == {"fast", "slow", "ext"}

\* mode.index.setValue(v): the hidden field of mode_widget.ui holds v
setValue(widget, v) == [widget EXCEPT !.index = v]

\* lines 70-88
run_add_mode(list, label) ==
    Append(list, setValue([label |-> label, index |-> 0], Len(list)))

\* faulty variant: the indices left as they were
update_mode_indices_skipped(list) == list

\* lines 90-94
update_mode_indices(list) ==
    [p \in 1..Len(list) |->
        IF list[p].index # p - 1 THEN setValue(list[p], p - 1) ELSE list[p]]

\* list.pop(index) for 0 <= index < len(list)
pop(list, index) ==
    [p \in 1..(Len(list) - 1) |-> IF p <= index THEN list[p] ELSE list[p + 1]]

\* lines 96-101
run_remove_mode(list, index) ==
    IF index >= Len(list)
    THEN [mode_list |-> list, result |-> Raised("IndexError", <<>>)]
    ELSE [mode_list |-> update_mode_indices(pop(list, index)),
          result |-> Returned(<<>>)]

TabCall(op, args, list, result) ==
    /\ mode_list' = list
    /\ call' = [op |-> op, args |-> args, pre |-> [mode_list |-> mode_list],
                bus |-> <<>>, locals |-> <<>>, result |-> result]
    /\ UNCHANGED <<started, dig_command, smart_cache, chunk_size, h5_file, mode,
                   holdoff, last_buffered, srs_started>>

\* the add button, or one saved mode of restore_save_data
add_mode(label) ==
    TabCall("add_mode", [label |-> label], run_add_mode(mode_list, label),
            Returned(<<>>))

\* the close button of the widget at a position of the list: line 79
close_clicked(position) ==
    LET r == run_remove_mode(mode_list, mode_list[position].index)
    IN  TabCall("remove_mode",
                [position |-> position, index |-> mode_list[position].index],
                r.mode_list, r.result)

\* the methods KeysightXScopeWorker defines
worker_methods ==
    {"analog_waveform_parser", "digital_pod_parser", "error_parser", "init",
     "set_aqcuisition_type", "set_averaging_number", "set_mode",
     "transition_to_buffered", "transition_to_manual", "check_status",
     "program_manual"}

\* the worker methods named in the tab's queue_work calls
queued_methods ==
    {"set_mode", "set_aqcuisition_type", "change_aqc_state", "set_averaging_number"}

\* the worker process looks the queued name up on the worker object
queue_work(name, r) ==
    IF name \in worker_methods
    THEN r
    ELSE [bus |-> <<>>, result |-> Raised("AttributeError", <<>>)]

\* lines 121-127
use_aqc_cb(isChecked) ==
    /\ started
    /\ mode = "manual"
    /\ BusOnlyCall("change_aqc_state", [state |-> isChecked], <<>>,
                   queue_work("change_aqc_state",
                              [bus |-> <<>>, result |-> Returned(<<>>)]))

-----------------------------------------------------------------------------
(* The system.  The host (BLACS) starts a worker with init, may restart it *)
(* at any time, and alternates transition_to_buffered and                  *)
(* transition_to_manual; the front panel methods are queued in manual      *)
(* mode only and check_status is polled.                                   *)

NoCall ==
    [op |-> "none", args |-> <<>>, pre |-> <<>>, bus |-> <<>>, locals |-> <<>>,
     result |-> Returned(<<>>)]

Init ==
    /\ started = FALSE
    /\ dig_command = ":DIG"
    /\ smart_cache = None
    /\ chunk_size = DefaultChunk
    /\ h5_file = None
    /\ mode = "manual"
    /\ holdoff = "unknown"
    /\ last_buffered = None
    /\ srs_started = FALSE
    /\ mode_list = <<>>
    /\ call = NoCall

NoPoints == [analog |-> 0, pod1 |-> 0, pod2 |-> 0]

\* a run whose scope answers every preamble with few points and whose bus
\* refuses nothing
NominalPoints(group) ==
    CHOOSE p \in PointsChoices(group) :
        p.analog \in {0, 199994} /\ p.pod1 \in {0, 399988} /\ p.pod2 \in {0, 399988}

\* the worker is started, and restarted after a failed call
Restart ==
    /\ ~started \/ call.result.status = "raised"
    /\ \E ident \in IdentStrings, f \in InitFailures : init(ident, f)

Buffered == \E h \in ShotFiles, fresh \in BOOLEAN, f \in BufferedFailures :
                transition_to_buffered(h, fresh, f)

NominalBuffered == \E h \in ManualShotFiles :
                       transition_to_buffered(h, TRUE, NoFailure)

Manual ==
    \E abort \in BOOLEAN :
       \E points \in IF abort \/ h5_file = None
                     THEN {NoPoints} ELSE PointsChoices(Get(h5_file)) :
          \E replies \in IF h5_file = None THEN {<<>>}
                          ELSE RepliesChoices(Get(h5_file), abort) :
             \E f \in 0..(IF h5_file = None THEN 0
                          ELSE bus_length(Get(h5_file), abort)) :
                transition_to_manual(abort, points, replies, f)

\* every counter answering the same count
NominalReplies(abort) ==
    IF abort \/ h5_file = None THEN <<>>
    ELSE [i \in 1..Len(table_of(Get(h5_file), "COUNTERS")) |-> 3]

NominalManual ==
    \E abort \in BOOLEAN :
       transition_to_manual(abort,
                            IF abort \/ h5_file = None THEN NoPoints
                            ELSE NominalPoints(Get(h5_file)),
                            NominalReplies(abort), 0)

\* Spec: every way transition_to_buffered can run, between nominal
\* transitions to manual
Next == Restart \/ Buffered \/ NominalManual

Spec == Init /\ [][Next]_vars

\* SpecManual: every way transition_to_manual can run, after nominal
\* transitions to buffered
NextManual == Restart \/ NominalBuffered \/ Manual

SpecManual == Init /\ [][NextManual]_vars

\* SpecPanel: the front panel methods
SetType == \E t \in AcquisitionTypes, ok \in BOOLEAN : set_aqcuisition_type(t, ok)

SetAveraging == \E n \in AveragingNumbers, ok \in BOOLEAN : set_averaging_number(n, ok)

\* the tab formats the time base values with NR3 ('{:.1E}')
SetMode == \E source \in {"CHANnel1", "EXTernal"}, timescale \in {"1.0E-05", "2.0E-03"},
              yzero \in {"0.0E+00", "5.0E-06"}, f \in 0..4 :
              set_mode(source, timescale, yzero, f)

\* the acquisition check box
UseAqc == \E isChecked \in BOOLEAN : use_aqc_cb(isChecked)

NextPanel == Restart \/ SetType \/ SetAveraging \/ SetMode \/ UseAqc

SpecPanel == Init /\ [][NextPanel]_vars

\* SpecTab: the mode list of the tab under its add and close buttons
AddMode ==
    /\ Len(mode_list) < MaxModes
    /\ \E label \in ModeLabels : add_mode(label)

CloseMode == \E position \in 1..Len(mode_list) : close_clicked(position)

NextTab == AddMode \/ CloseMode

SpecTab == Init /\ [][NextTab]_vars

\* SpecStatus: the status polls of both workers
ScopePoll == \E e \in EventRegisters, q \in ScopeQueues :
                \E f \in 0..(Len(q) + 2) : scope_check_status(e, q, f)

SrsRestart ==
    /\ ~srs_started \/ call.result.status = "raised"
    /\ \E ident \in IdentStrings, f \in 0..2 : srs_init(ident, f)

SrsPoll == \E e \in EventRegisters, q \in SrsQueues :
              \E f \in 0..(Len(q) + 2) : srs_check_status(e, q, f)

NextStatus == Restart \/ ScopePoll \/ SrsRestart \/ SrsPoll

SpecStatus == Init /\ [][NextStatus]_vars

\* SpecTraces: the data path of transition_to_manual on short records.  One
\* single-shot acquisition has one analog and one digital record length and
\* time base: the channels of a kind share the x fields of their preambles.

\* longest record
MaxPoints == 3

XPreambles ==
    { Preamble(p, xi, xo, xr, 0, 0, 0) :
        p \in 1..MaxPoints, xi \in {1, 2}, xo \in {0, 5}, xr \in {0, -1} }

\* the y fields of an analog preamble: y_increment, y_origin, y_reference
YPreambles ==
    { [yinc |-> yi, yor |-> yo, yref |-> yr] :
        yi \in {1, 2, 257}, yo \in {0, -5}, yr \in {0, 32768} }

WithY(x, y) == Preamble(x.points, x.xinc, x.xor, x.xref, y.yinc, y.yor, y.yref)

\* unsigned 16 bit samples ('H'), unsigned 8 bit samples ('B')
AnalogSamples == {0, 1, 32768, 65535}
PodBytes == 0..255

\* a record of p samples starting with the given one
AnalogRecord(first, p) == [i \in 1..p |-> (first + (i - 1) * 257) % 65536]
PodRecord(first, p) == [i \in 1..p |-> (first + (i - 1) * 85) % 256]

NoReply == [pre |-> Preamble(0, 0, 0, 0, 0, 0, 0), raw |-> <<>>]

TraceSettings == CHOOSE m \in MeasureSettingsChoices : TRUE

\* each record is converted on its own, from the initial state
\* one analog channel: every preamble, every first sample
AnalogTraces ==
    /\ call.op = "none"
    /\ \E x \in XPreambles, y \in YPreambles, s \in AnalogSamples :
        read_traces(generate_code(<<Acq("Channel", 1, "ch1")>>, <<>>, <<>>, <<>>,
                                  TraceSettings),
                    [analog |-> << [pre |-> WithY(x, y),
                                    raw |-> AnalogRecord(s, x.points)] >>,
                     pod1 |-> NoReply, pod2 |-> NoReply])

\* one channel of a pod: every channel, every byte
PodTraces ==
    /\ call.op = "none"
    /\ \E c \in 0..15, b \in PodBytes, p \in {1, MaxPoints} :
        LET reply == [pre |-> Preamble(p, 2, 5, 0, 0, 0, 0), raw |-> PodRecord(b, p)]
            acq == <<Acq("Digital", c, "d")>>
        IN  read_traces(generate_code(<<>>, IF c < 8 THEN acq ELSE <<>>,
                                      IF c < 8 THEN <<>> ELSE acq, <<>>,
                                      TraceSettings),
                        [analog |-> <<>>,
                         pod1 |-> IF c < 8 THEN reply ELSE NoReply,
                         pod2 |-> IF c < 8 THEN NoReply ELSE reply])

\* two analog channels and both pods in one acquisition
MixedTraces ==
    /\ call.op = "none"
    /\ \E a \in AcquisitionChoices, ax \in XPreambles, dx \in XPreambles,
       y1 \in YPreambles, y2 \in {[yinc |-> 1, yor |-> 0, yref |-> 0]} :
        /\ Len(a.analog) = 2 /\ Len(a.pod1) > 0 /\ Len(a.pod2) > 0
        /\ ax.xinc = 1 /\ dx.xinc = 2 /\ ax.xor = 0
        /\ read_traces(generate_code(a.analog, a.pod1, a.pod2, <<>>, TraceSettings),
                       [analog |-> << [pre |-> WithY(ax, y1),
                                       raw |-> AnalogRecord(32768, ax.points)],
                                      [pre |-> WithY(ax, y2),
                                       raw |-> AnalogRecord(65535, ax.points)] >>,
                        pod1 |-> [pre |-> dx, raw |-> PodRecord(170, dx.points)],
                        pod2 |-> [pre |-> dx, raw |-> PodRecord(15, dx.points)]])

NextTraces == AnalogTraces \/ PodTraces \/ MixedTraces

SpecTraces == Init /\ [][NextTraces]_vars

-----------------------------------------------------------------------------
(* Properties *)

IsBuffered == call.op = "transition_to_buffered"
IsManual == call.op = "transition_to_manual"

\* the per-counter ':MEAS:' configuration writes of the last call
MeasWrites == OfCmd(call.bus, meas_config_string)

\* C1 (SmartCache skip): when transition_to_buffered is called twice in a
\* row with the same COUNTERS table, the first call having returned, and the
\* second call has fresh=False, the second call issues no ':MEAS:'
\* configuration command.
C1_SmartCacheSkip ==
    ( /\ IsBuffered
      /\ ~call.args.fresh
      /\ call.locals.data # None
      /\ call.pre.last_buffered # None
      /\ Get(call.pre.last_buffered).status = "returned"
      /\ Get(call.pre.last_buffered).counters = call.locals.data )
    => Len(MeasWrites) = 0

\* a second submission of a two-row table that was skipped and went on to
\* arm the scope
C1_Witness ==
    /\ IsBuffered
    /\ ~call.args.fresh
    /\ call.locals.data # None
    /\ Len(Get(call.locals.data)) = 2
    /\ call.pre.last_buffered # None
    /\ Get(call.pre.last_buffered).status = "returned"
    /\ Get(call.pre.last_buffered).counters = call.locals.data
    /\ call.pre.smart_cache = call.locals.data
    /\ call.result.status = "returned"
    /\ Len(MeasWrites) = 0
    /\ Len(OfCmd(call.bus, dig_command)) = 1

\* C2 (forced refresh): a transition_to_buffered that returns, with a
\* COUNTERS table and either fresh=True or fresh=False and a table that
\* differs from the cached one, issues exactly one configuration command
\* per counter request, in table order, and leaves that table in the cache.
C2_ForcedRefresh ==
    ( /\ IsBuffered
      /\ call.result.status = "returned"
      /\ call.locals.data # None
      /\ call.args.fresh \/ call.pre.smart_cache # call.locals.data )
    => LET data == Get(call.locals.data)
       IN  /\ Len(MeasWrites) = Len(data)
           /\ \A i \in 1..Len(data) :
                 /\ MeasWrites[i].sargs = <<data[i][3], data[i][2]>>
                 /\ MeasWrites[i].nargs = <<data[i][1][2]>>
           /\ smart_cache = call.locals.data

\* C6 (single-shot arming): a transition_to_buffered that returns has
\* issued the single-shot command exactly when the request table holds an
\* analog, pod 1, pod 2 or counter request.
C6_SingleShotArming ==
    ( IsBuffered /\ call.result.status = "returned" )
    => ( Len(OfCmd(call.bus, dig_command)) = 1
         <=> \E n \in {"ANALOG_ACQUISITIONS", "POD1_ACQUISITIONS",
                       "POD2_ACQUISITIONS", "COUNTERS"} :
                n \in DOMAIN call.args.h5file )

\* C7 (independent optional settings): once transition_to_buffered is past
\* its holdoff write, each of the three optional settings is attempted,
\* whichever of the others fail.
C7_IndependentSettings ==
    ( /\ IsBuffered
      /\ call.args.fail.hard # "holdoff"
      /\ "MEAS_SETTINGS" \in DOMAIN call.args.h5file )
    => \A cmd \in {":trigger:source {}", ":timebase:range {}",
                   ":timebase:position {}"} :
          Len(OfCmd(call.bus, cmd)) = 1

\* C8 (optional settings never abort): whichever optional setting writes
\* fail, while the other writes are accepted, transition_to_buffered goes on
\* to configure the counters (all of them when a refresh is forced) and to
\* the single-shot command, and returns its final values (an empty mapping).
C8_OptionalNeverAbort ==
    ( IsBuffered /\ call.args.fail.hard = "none" )
    => /\ call.result.status = "returned"
       /\ call.result.value = <<>>
       /\ ( call.args.fresh /\ call.locals.data # None )
             => Len(MeasWrites) = Len(Get(call.locals.data))
       /\ call.locals.send_trigger
             => /\ Len(OfCmd(call.bus, dig_command)) = 1
                /\ call.bus[Len(call.bus)].cmd = dig_command

\* all three optional writes refused, and still the counters configured and
\* the scope armed
C8_Witness ==
    /\ IsBuffered
    /\ call.args.fail.hard = "none"
    /\ call.args.fail.opt = {"trigger_source", "range", "position"}
    /\ call.args.fresh
    /\ call.locals.data # None
    /\ Len(MeasWrites) = 2
    /\ Len(OfCmd(call.bus, dig_command)) = 1
    /\ call.result.status = "returned"

\* C3 (chunk size restored): every waveform transfer of
\* transition_to_manual leaves the chunk size as it found it, whether its
\* binary read succeeds or fails.
C3_ChunkRestored ==
    IsManual
    => \A i \in 1..Len(call.locals.transfers) :
          call.locals.transfers[i].after = call.locals.transfers[i].before

\* C4 (chunk size enlargement): for a transfer of P points of W bytes (2
\* for an analog channel, 1 for a pod) the chunk size during the binary read
\* is P*W+11 if and only if P*W+11 >= 400000, and is otherwise the chunk
\* size found.
C4_ChunkEnlargement ==
    IsManual
    => \A i \in 1..Len(call.locals.transfers) :
          LET t == call.locals.transfers[i]
              W == IF t.kind = "analog" THEN 2 ELSE 1
              needed == t.points * W + 11
          IN  /\ (t.during = needed) <=> (needed >= 400000)
              /\ needed < 400000 => t.during = t.before

\* a pod transfer of exactly 400000 bytes read with the enlarged chunk,
\* after an analog transfer just below the threshold
C4_Witness ==
    /\ IsManual
    /\ \E i, j \in 1..Len(call.locals.transfers) :
          /\ call.locals.transfers[i].kind = "pod"
          /\ call.locals.transfers[i].points = 399989
          /\ call.locals.transfers[i].during = 400000
          /\ call.locals.transfers[i].before = 20 * 1024
          /\ call.locals.transfers[i].ok
          /\ call.locals.transfers[j].kind = "analog"
          /\ call.locals.transfers[j].points = 199994
          /\ call.locals.transfers[j].during = 20 * 1024

\* C5 (error propagation): a check_status that found a masked status bit
\* set and drained at least one nonzero entry from the error queue hands
\* the accumulated entries to its caller, for both workers.
C5_ErrorsReported ==
    ( /\ call.op \in {"scope_check_status", "srs_check_status"}
      /\ call.result.exc # "VisaIOError"
      /\ Len(call.locals.accumulated) > 0 )
    => call.result.errors = call.locals.accumulated

\* C9 (set_averaging_number): for n > 0 exactly one ':ACQuire:COUNt'
\* command carrying n is issued; for n <= 0 the call raises and issues
\* nothing.
C9_AveragingNumber ==
    call.op = "set_averaging_number"
    => LET n == call.args.number
       IN  /\ n > 0 => /\ Len(call.bus) = 1
                       /\ call.bus[1].kind = "write"
                       /\ call.bus[1].cmd = ":ACQuire:COUNt {}"
                       /\ call.bus[1].nargs = <<n>>
                       /\ call.bus[1].sargs = <<>>
           /\ n <= 0 => /\ call.bus = <<>>
                        /\ call.result.status = "raised"
                        /\ call.result.exc = "LabscriptError"

C9_Witness ==
    /\ call.op = "set_averaging_number"
    /\ call.args.number = 2
    /\ call.result.status = "returned"
    /\ Len(call.bus) = 1
    /\ call.bus[1].nargs = <<2>>

\* C10 (set_aqcuisition_type): a type other than 'NORMal' and 'AVERage' is
\* rejected with an error and nothing is written; each of the two issues
\* exactly one ':ACQuire:TYPE' command carrying it.
C10_AcquisitionType ==
    call.op = "set_aqcuisition_type"
    => LET t == call.args.aqtype
       IN  /\ t \in {"NORMal", "AVERage"}
                => /\ Len(call.bus) = 1
                   /\ call.bus[1].kind = "write"
                   /\ call.bus[1].cmd = ":ACQuire:TYPE {}"
                   /\ call.bus[1].sargs = <<t>>
           /\ t \notin {"NORMal", "AVERage"}
                => /\ call.bus = <<>>
                   /\ call.result.status = "raised"
                   /\ call.result.exc = "LabscriptError"

C10_Witness ==
    /\ call.op = "set_aqcuisition_type"
    /\ call.args.aqtype = "PEAK"
    /\ call.bus = <<>>
    /\ call.result.status = "raised"

AcquisitionTables ==
    {"ANALOG_ACQUISITIONS", "POD1_ACQUISITIONS", "POD2_ACQUISITIONS", "COUNTERS"}

\* C11 (zero-acquisition no-op): a transition_to_manual with abort=False on
\* a run whose request table has no analog, pod 1, pod 2 or counter request
\* issues nothing on the bus, writes nothing to the result store and
\* returns True.
C11_ZeroAcquisitionNoOp ==
    ( /\ IsManual
      /\ ~call.args.abort
      /\ DOMAIN Get(h5_file) \cap AcquisitionTables = {} )
    => /\ call.bus = <<>>
       /\ call.locals.stored.datasets = <<>>
       /\ call.locals.stored.attrs = <<>>
       /\ call.result = Returned(TRUE)

\* such a run, after a transition_to_buffered that returned
C11_Witness ==
    /\ IsManual
    /\ ~call.args.abort
    /\ DOMAIN Get(h5_file) = {"MEAS_SETTINGS"}
    /\ call.pre.last_buffered # None
    /\ Get(call.pre.last_buffered).status = "returned"
    /\ call.bus = <<>>
    /\ call.result = Returned(TRUE)

\* C12 (abort): transition_to_manual(abort=True) sends no configuration
\* command, issues no preamble, waveform or counter query, writes nothing to
\* the result store and returns True.
C12_AbortRestoresNothing ==
    ( IsManual /\ call.args.abort )
    => /\ \A i \in 1..Len(call.bus) :
             call.bus[i].kind # "write" /\ call.bus[i].kind # "query"
       /\ call.locals.stored.datasets = <<>>
       /\ call.locals.stored.attrs = <<>>
       /\ call.result = Returned(TRUE)

\* C13 (status register source): the mapping returned by the scope's
\* check_status is the decoding of the event status register as it stands
\* at that poll; a poll taken when no bit selected by esr_mask is set issues
\* no error queue query and reports every masked bit false.
C13_StatusRegisterSource ==
    ( call.op = "scope_check_status" /\ call.result.status = "returned" )
    => LET register == call.args.event_register
       IN  /\ call.result.value = convert_register(register)
           /\ BitAnd(register, esr_mask) = 0
                => /\ Len(OfCmd(call.bus, ":SYST:ERR?")) = 0
                   /\ \A b \in 0..7 :
                         BitAnd(Pow2(b), esr_mask) # 0 => ~call.result.value[b]

\* the counter queries of the last call
CounterQueries == OfCmd(call.bus, read_counter_string)

\* C14 (counter readout): a transition_to_manual that returns has issued,
\* for every row (connection, type, polarity) of the COUNTERS table, exactly
\* one query built from that row's polarity, type and channel number, and
\* the value written under that row's attribute key is the reply to that
\* row's own query, also when two rows refer to the same channel.
C14_CounterReadout ==
    ( /\ IsManual
      /\ ~call.args.abort
      /\ call.result.status = "returned" )
    => LET counters == table_of(Get(h5_file), "COUNTERS")
       IN  /\ Len(CounterQueries) = Len(counters)
           /\ Len(call.locals.counts) = Len(counters)
           /\ \A i \in 1..Len(counters) :
                 /\ CounterQueries[i].sargs = <<counters[i][3], counters[i][2]>>
                 /\ CounterQueries[i].nargs = <<counters[i][1][2]>>
                 /\ call.locals.counts[i].key
                       = <<counters[i][1], counters[i][3], counters[i][2]>>
                 /\ call.locals.counts[i].value = call.args.replies[i]

IsTraces == call.op = "read_traces"

\* the datasets of the last read_traces, their request rows and replies
TraceSets == { call.locals.datasets[i] : i \in 1..Len(call.locals.datasets) }
TraceTable(d) ==
    table_of(call.args.h5file,
             CASE d.kind = "analog" -> "ANALOG_ACQUISITIONS"
               [] d.kind = "pod1" -> "POD1_ACQUISITIONS"
               [] OTHER -> "POD2_ACQUISITIONS")
TraceChannel(d) == TraceTable(d)[d.row][1][2]
TraceReply(d) ==
    CASE d.kind = "analog" -> call.args.replies.analog[d.row]
      [] d.kind = "pod1" -> call.args.replies.pod1
      [] OTHER -> call.args.replies.pod2

Abs(x) == IF x < 0 THEN 0 - x ELSE x

\* C15 (digital channel selection): the value stored for sample k of pod 1
\* channel c in 0..7 is bit c of raw byte k, and for pod 2 channel c in
\* 8..15 it is bit c-8 of raw byte k, for every byte 0..255 and every
\* channel 0..15.
C15_DigitalChannelSelection ==
    IsTraces
    => \A d \in TraceSets :
          d.kind # "analog"
          => LET c == TraceChannel(d)
                 bit == IF d.kind = "pod1" THEN c ELSE c - 8
                 raw == TraceReply(d).raw
             IN  /\ (d.kind = "pod1") <=> (c \in 0..7)
                 /\ Len(d.values) = Len(raw)
                 /\ \A k \in 1..Len(raw) :
                       d.values[k] = (raw[k] \div Pow2(bit)) % 2

\* channel 15 of pod 2 on the bytes 64, 149, 234: bit 7 of each is stored
C15_Witness ==
    /\ IsTraces
    /\ \E d \in TraceSets :
          /\ d.kind = "pod2"
          /\ TraceChannel(d) = 15
          /\ TraceReply(d).raw = <<64, 149, 234>>
          /\ d.values = <<0, 1, 1>>

\* C16 as claimed (analog conversion): the value stored for sample k of an
\* analog channel is (raw - y_reference) * y_increment + y_origin.
C16_AnalogConversionExact ==
    IsTraces
    => \A d \in TraceSets :
          d.kind = "analog"
          => LET r == TraceReply(d)
             IN  \A k \in 1..Len(r.raw) :
                    d.values[k] = (r.raw[k] - r.pre.yref) * r.pre.yinc + r.pre.yor

\* C16 amended (analog conversion): the value stored for sample k of an
\* analog channel is v = (raw - y_reference) * y_increment + y_origin
\* rounded to single precision: it equals v when |v| <= 2^24 and is always
\* within |v| / 2^24 of v; with y_increment=1, y_origin=0, y_reference=0 it
\* equals raw.
C16_AnalogConversion ==
    IsTraces
    => \A d \in TraceSets :
          d.kind = "analog"
          => LET r == TraceReply(d)
             IN  /\ Len(d.values) = Len(r.raw)
                 /\ \A k \in 1..Len(r.raw) :
                       LET v == (r.raw[k] - r.pre.yref) * r.pre.yinc + r.pre.yor
                       IN  /\ Abs(v) <= Pow2(24) => d.values[k] = v
                           /\ Abs(d.values[k] - v) * Pow2(24) <= Abs(v)
                           /\ ( r.pre.yinc = 1 /\ r.pre.yor = 0 /\ r.pre.yref = 0 )
                                 => d.values[k] = r.raw[k]

\* a sample converted to 16842495, beyond 2^24, and stored as 16842496
C16_Witness ==
    /\ IsTraces
    /\ \E d \in TraceSets :
          /\ d.kind = "analog"
          /\ TraceReply(d).pre.yinc = 257
          /\ TraceReply(d).pre.yor = 0
          /\ TraceReply(d).pre.yref = 0
          /\ TraceReply(d).raw[1] = 65535
          /\ d.values[1] = 16842496

FamilyMatches ==
    IF call.op = "init"
    THEN \/ IsSubstring(<<"S","O","-","X">>, call.args.ident_string)
         \/ IsSubstring(<<"S","O","X">>, call.args.ident_string)
    ELSE IsSubstring(<<"S","G","3","8">>, call.args.ident_string)

\* C18 (identity gating at init): when the '*IDN?' reply does not match the
\* worker's model family (no 'SO-X' or 'SOX' for the scope, no 'SG38' for
\* the SRS generator) init raises an error and has written nothing to the
\* instrument; whatever init writes, it writes after an '*IDN?' query whose
\* reply matched.
C18_IdentityGating ==
    call.op \in {"init", "srs_init"}
    => /\ ( call.bus[1].ok /\ ~FamilyMatches )
            => /\ call.result.status = "raised"
               /\ call.result.exc = "LabscriptError"
               /\ \A i \in 1..Len(call.bus) : call.bus[i].kind # "write"
       /\ \A i \in 1..Len(call.bus) :
             call.bus[i].kind = "write"
             => /\ i > 1
                /\ call.bus[1] = Query("*IDN?", <<>>, <<>>, TRUE)
                /\ FamilyMatches

\* a scope worker started on an SRS generator: refused after the query
C18_Witness ==
    /\ call.op = "init"
    /\ call.args.ident_string = <<"S","G","3","8","2">>
    /\ call.bus = <<Query("*IDN?", <<>>, <<>>, TRUE)>>
    /\ call.result.status = "raised"
    /\ call.result.exc = "LabscriptError"
    /\ ~started

\* the preamble, waveform and counter queries of a bus log
ReadQueries(bus) ==
    SelectSeq(bus, LAMBDA o : o.cmd \in {read_analog_parameters_string,
                                        read_dig_parameters_string,
                                        read_waveform_string,
                                        read_counter_string})

\* C19 (arm before read): a transition_to_manual that issues a preamble,
\* waveform or counter query comes right after a transition_to_buffered of
\* the same request table which returned having written the single-shot
\* command, and a transition_to_buffered that writes the single-shot
\* command writes it once, as its last command.
C19_ArmBeforeRead ==
    [][ /\ ( /\ mode = "buffered"
             /\ call'.op = "transition_to_manual"
             /\ Len(ReadQueries(call'.bus)) > 0 )
           => /\ call.op = "transition_to_buffered"
              /\ call.result.status = "returned"
              /\ Some(call.args.h5file) = h5_file'
              /\ Len(OfCmd(call.bus, dig_command)) = 1
        /\ ( /\ call'.op = "transition_to_buffered"
             /\ Len(OfCmd(call'.bus, dig_command')) > 0 )
           => /\ Len(OfCmd(call'.bus, dig_command')) = 1
              /\ call'.bus[Len(call'.bus)].cmd = dig_command'
      ]_vars

\* a run that armed the scope and then read an analog channel and two
\* counters
C19_Witness ==
    /\ IsManual
    /\ ~call.args.abort
    /\ call.pre.last_buffered # None
    /\ Get(call.pre.last_buffered).status = "returned"
    /\ Len(OfCmd(call.bus, read_waveform_string)) = 1
    /\ Len(OfCmd(call.bus, read_counter_string)) = 2
    /\ call.result.status = "returned"

\* the error queue queries of the last check_status
ErrorQueries ==
    SelectSeq(call.bus, LAMBDA o : o.cmd \in {":SYST:ERR?", "LERR?"})

\* C20 (error queue drain terminates): a check_status that read a register
\* with a masked bit set, the error queue holding k nonzero entries and then
\* answering 0, the bus refusing nothing, issues exactly k+1 error queue
\* queries, the last of them ending the call; for the ':SYST:ERR?' loop of
\* the scope and the 'LERR?' loop of the SRS generator.
C20_DrainTerminates ==
    ( /\ call.op \in {"scope_check_status", "srs_check_status"}
      /\ AllOk(call.bus)
      /\ BitAnd(call.locals.esr,
                IF call.op = "scope_check_status" THEN 61 ELSE 60) # 0 )
    => /\ Len(ErrorQueries) = Len(call.args.queue) + 1
       /\ Len(call.bus) = Len(call.args.queue) + 2
       /\ call.bus[Len(call.bus)].cmd
             = (IF call.op = "scope_check_status" THEN ":SYST:ERR?" ELSE "LERR?")
       /\ Len(call.locals.accumulated) = Len(call.args.queue)
       /\ call.result.exc # "VisaIOError"

\* an SRS poll that drained two entries with three queries
C20_Witness ==
    /\ call.op = "srs_check_status"
    /\ AllOk(call.bus)
    /\ call.args.event_register = 36
    /\ Len(call.args.queue) = 2
    /\ Len(ErrorQueries) = 3
    /\ call.locals.accumulated = call.args.queue

\* C21 (status mask): SRS_SG380Worker.check_status queries the error queue
\* and raises only when the event status value has a bit of the mask 60
\* (bits 2..5) set; for a value whose masked part is zero it issues no
\* 'LERR?' query, raises nothing and returns the decoded register.
C21_SrsStatusMask ==
    ( call.op = "srs_check_status" /\ call.bus[1].ok )
    => LET esr == call.args.event_register
           masked == \E b \in 2..5 : (esr \div Pow2(b)) % 2 = 1
       IN  /\ ~masked
                => /\ Len(OfCmd(call.bus, "LERR?")) = 0
                   /\ call.result.status = "returned"
                   /\ \A b \in 0..7 :
                         call.result.value[b] = ((esr \div Pow2(b)) % 2 = 1)
           /\ masked
                => /\ Len(OfCmd(call.bus, "LERR?")) > 0
                   /\ call.result.status = "raised"

\* a poll that found power-on and operation-complete set and nothing else
C21_Witness ==
    /\ call.op = "srs_check_status"
    /\ call.args.event_register = 129
    /\ Len(call.args.queue) > 0
    /\ call.bus = <<Query("*ESR?", <<>>, <<>>, TRUE)>>
    /\ call.result.status = "returned"
    /\ call.result.value[7] /\ call.result.value[0] /\ ~call.result.value[2]

\* C22 (trigger holdoff restored): after an init that returned and after
\* every transition_to_manual that returned (normal completion, abort or
\* the zero-acquisition early return) the scope's trigger holdoff is 40E-9.
C22_HoldoffRestored ==
    ( /\ call.op \in {"init", "transition_to_manual"}
      /\ call.result.status = "returned" )
    => holdoff = "40E-9"

\* C23 (smart cache reflects only applied configuration): a table that
\* transition_to_buffered puts in smart_cache['COUNTERS'] is one all of
\* whose per-counter configuration commands were written, and accepted, by
\* that call.
C23_CacheFullyApplied ==
    ( /\ IsBuffered
      /\ smart_cache # None
      /\ smart_cache # call.pre.smart_cache )
    => /\ Len(MeasWrites) = Len(Get(smart_cache))
       /\ AllOk(MeasWrites)

\* C24 (mode list index invariant): after any sequence of add_mode and
\* remove_mode every mode widget's stored index equals its position in
\* mode_list, and a click on a widget's close button removes exactly that
\* widget: the list afterwards is the list before without that position.
C24_ModeIndices ==
    /\ \A p \in 1..Len(mode_list) : mode_list[p].index = p - 1
    /\ call.op = "remove_mode"
         => LET before == call.pre.mode_list
                clicked == call.args.position
            IN  /\ call.result.status = "returned"
                /\ Len(mode_list) = Len(before) - 1
                /\ \A p \in 1..Len(mode_list) :
                      mode_list[p].label =
                          before[IF p < clicked THEN p ELSE p + 1].label

\* the first of three modes closed: the two behind it moved up
C24_Witness ==
    /\ call.op = "remove_mode"
    /\ Len(call.pre.mode_list) = 3
    /\ call.args.position = 1
    /\ Len(mode_list) = 2
    /\ mode_list[1].label # mode_list[2].label
    /\ mode_list[2].label = call.pre.mode_list[3].label
    /\ mode_list[2].index = 1

\* C25 (queued work exists): every worker method the tab queues (set_mode,
\* set_aqcuisition_type, set_averaging_number, change_aqc_state) is one
\* KeysightXScopeWorker defines, so the worker finds it when the call runs.
C25_QueuedWorkExists ==
    call.op \in queued_methods
    => /\ call.op \in worker_methods
       /\ call.result.exc # "AttributeError"

====
